---- MODULE Spec2Model ----
(***************************************************************************)
(* A model of bin/setup_tree.py: the symlink tree builder (create_env,     *)
(* create_index_page, create_index_table, make_symlink), the shell file    *)
(* writer (write_file, write_header, write_version), the module installer  *)
(* (copy_modules) and the driver loop of main.                             *)
(*                                                                         *)
(* Strings the code inspects (substring tests, upper(), splitext, split)   *)
(* are sequences of one-character strings.  Strings that are only stored,  *)
(* compared for equality and copied are TLA+ strings.                      *)
(***************************************************************************)
EXTENDS Integers, Sequences, FiniteSets, TLC

VARIABLES
    environ,    \* the tree environment handed to the operations (tree.environ)
    targets,    \* data path -> [exists, mtime]: whether os.stat succeeds, st_mtime in seconds
    envdir,     \* sas_root and sas_root/env: "noroot", "missing", "readonly", "writable"
    envlinks,   \* symlinks in sas_root/env: link name -> path it points at
    outcome,    \* how the last create_env call ended; "fresh"/"idle" before a call
    table,      \* rows of the table built by the last create_index_table call
    made,       \* os.symlink calls of the last create_env call, in order
    removed,    \* links handed to _remove_link because the target's stat failed
    again,      \* the last create_env call repeated the call before it on unchanged inputs
    index,      \* page written to sas_root/env/index.html by the last create_env call
    etc,        \* out_dir (tree_dir/etc): [exists, files], files: file name -> content
    mods,       \* module roots that have a tree directory: path -> files of <path>/tree
    modenv,     \* the MODULEPATH environment variable, <<>> when unset
    lastcall,   \* the last write_file / copy_modules call and the files it opened
    opts,       \* the parsed command line of main
    configs,    \* the configuration files main discovered
    pc,         \* main: index of the next configuration file, 0 before the run
    calls       \* main: the calls made so far, each [op, cfgfile]

vars == <<environ, targets, envdir, envlinks, outcome, table, made, removed, again, index,
          etc, mods, modenv, lastcall, opts, configs, pc, calls>>

buildvars == <<environ, targets, envdir, envlinks, outcome, table, made, removed, again,
               index>>
writevars == <<etc, mods, modenv, lastcall>>
mainvars  == <<opts, configs, pc, calls>>

(***************************************************************************)
(* Bounds                                                                  *)
(***************************************************************************)
\* variables of an environment besides general/sas_root
MaxVars == 2

(***************************************************************************)
(* Strings                                                                 *)
(***************************************************************************)
LowerChars == <<"a","b","c","d","e","f","g","h","i","j","k","l","m",
                "n","o","p","q","r","s","t","u","v","w","x","y","z">>
UpperChars == <<"A","B","C","D","E","F","G","H","I","J","K","L","M",
                "N","O","P","Q","R","S","T","U","V","W","X","Y","Z">>

\* str.upper() on one character: letters a-z change, everything else stays
UpperChar(c) ==
    IF \E i \in 1..26 : LowerChars[i] = c
    THEN UpperChars[CHOOSE i \in 1..26 : LowerChars[i] = c]
    ELSE c

\* str.upper()
Upper(s) == [i \in 1..Len(s) |-> UpperChar(s[i])]

\* Python's `sub in s` on strings
Contains(sub, s) ==
    \E i \in 1..(Len(s) - Len(sub) + 1) : SubSeq(s, i, i + Len(sub) - 1) = sub

\* the literals the code tests names against
S_root         == <<"_","r","o","o","t">>
S_sas_base_dir == <<"s","a","s","_","b","a","s","e","_","d","i","r">>
S_cas_load     == <<"c","a","s","_","l","o","a","d">>
S_staging_data == <<"s","t","a","g","i","n","g","_","d","a","t","a">>
S_sas_root     == <<"s","a","s","_","r","o","o","t">>
S_name         == <<"n","a","m","e">>
S_current      == <<"c","u","r","r","e","n","t">>

\* variable names and configuration names used by the modelled configurations
S_boss         == <<"b","o","s","s">>
S_apo_root     == <<"a","p","o","_","r","o","o","t">>
S_dr1          == <<"d","r","1">>
S_dr10         == <<"d","r","1","0">>

(***************************************************************************)
(* Environments: a sequence of sections in mapping order, each a sequence  *)
(* of <<key, value>> pairs in stored order.                                *)
(***************************************************************************)
SasRootPath == "/sas"
DataPaths   == {"/sas/a", "/sas/b"}
OtherSection == "apogee"

\* st_mtime values of a data path that exists (seconds)
Mtimes == {59, 60}
NoTarget == [exists |-> FALSE, mtime |-> 0]
TargetStates == {NoTarget} \cup {[exists |-> TRUE, mtime |-> t] : t \in Mtimes}

\* the variables a configuration may define besides general/sas_root, in file order
VarNames == <<S_sas_base_dir, S_cas_load, S_staging_data, S_boss, S_apo_root>>

Absent == <<"absent", "">>
Slots  == {Absent} \cup ({"general", OtherSection} \X DataPaths)

\* the <<key, value>> pairs a choice c puts into section sec
SectionValues(c, sec) ==
    LET F[i \in 0..Len(VarNames)] ==
            IF i = 0 THEN <<>>
            ELSE IF c[i][1] = sec THEN Append(F[i - 1], <<VarNames[i], c[i][2]>>)
            ELSE F[i - 1]
    IN  F[Len(VarNames)]

\* the environment of a configuration named name: default first, then general
\* (sas_root first), then the other section when it has variables
MkEnviron(name, current, c) ==
    LET dflt  == [section |-> "default",
                  values  |-> << <<S_name, name>>, <<S_current, current>> >>]
        gen   == [section |-> "general",
                  values  |-> << <<S_sas_root, SasRootPath>> >> \o SectionValues(c, "general")]
        other == [section |-> OtherSection, values |-> SectionValues(c, OtherSection)]
    IN  IF other.values = <<>> THEN <<dflt, gen>> ELSE <<dflt, gen, other>>

\* the path the studied configuration gives variable i
ConfiguredPath(i) == IF i % 2 = 1 THEN "/sas/a" ELSE "/sas/b"

\* configurations of at most n variables, each at its configured path
Choices(n) ==
    {c \in [1..Len(VarNames) -> Slots] :
        /\ Cardinality({i \in 1..Len(VarNames) : c[i] # Absent}) <= n
        /\ \A i \in 1..Len(VarNames) : c[i] # Absent => c[i][2] = ConfiguredPath(i)}

\* configurations of one variable outside general, at any path
EarlierChoices ==
    {c \in [1..Len(VarNames) -> Slots] :
        /\ Cardinality({i \in 1..Len(VarNames) : c[i] # Absent}) = 1
        /\ \A i \in 1..Len(VarNames) : c[i] # Absent => c[i][1] = OtherSection}

Environs(names, currents) ==
    {MkEnviron(nm, cur, c) : nm \in names, cur \in currents, c \in Choices(MaxVars)}

\* environ[section]
Section(env, sec) ==
    (CHOOSE s \in {env[i] : i \in 1..Len(env)} : s.section = sec).values

\* values[key]
Lookup(values, key) ==
    (CHOOSE kv \in {values[i] : i \in 1..Len(values)} : kv[1] = key)[2]

(***************************************************************************)
(* SymlinkTreeBuilder                                                      *)
(***************************************************************************)
\* mutant: a failing stat goes unnoticed
StatAlwaysOK(src) == TRUE

\* os.stat(src) succeeds
StatOK(src) == targets[src].exists

\* time.strftime('%d-%b-%Y %H:%M', time.localtime(st_mtime)): minute resolution
Strftime(mtime) == mtime \div 60

\* os.path.exists(src) on a data path
PathExists(src) == targets[src].exists

\* os.path.exists(link): follows the symlink
LinkExists(links, link) == link \in DOMAIN links /\ PathExists(links[link])

\* mutant: the link is never removed
remove_link_noop(links, link) == links

_remove_link(links, link) ==
    IF link \in DOMAIN links
    THEN [l \in DOMAIN links \ {link} |-> links[l]]
    ELSE links

\* mutant: an existing link is kept instead of replaced
make_symlink_keep(st, src, link) ==
    IF link \in DOMAIN st.links
    THEN st
    ELSE [st EXCEPT !.links = [l \in DOMAIN st.links \cup {link} |->
                                   IF l = link THEN src ELSE st.links[l]],
                    !.made  = Append(@, <<src, link>>)]

\* mutant: an existing link is removed and not created again
make_symlink_toggle(st, src, link) ==
    IF link \in DOMAIN st.links
    THEN [st EXCEPT !.links = [l \in DOMAIN st.links \ {link} |-> st.links[l]]]
    ELSE [st EXCEPT !.links = [l \in DOMAIN st.links \cup {link} |->
                                   IF l = link THEN src ELSE st.links[l]],
                    !.made  = Append(@, <<src, link>>)]

\* os.symlink raises FileExistsError when the link path exists
make_symlink(st, src, link) ==
    LET ls == _remove_link(st.links, link)
    IN  IF link \in DOMAIN ls
        THEN [st EXCEPT !.links = ls, !.raised = TRUE]
        ELSE [st EXCEPT !.links = [l \in DOMAIN ls \cup {link} |->
                                       IF l = link THEN src ELSE ls[l]],
                        !.made  = Append(@, <<src, link>>)]

\* mutant: `_root` names are skipped in general only
SkipRootInGeneral(section, tree_name) ==
    section = "general" /\ Contains(S_root, tree_name)

\* `if '_root' in tree_name: continue`
SkipRoot(section, tree_name) == Contains(S_root, tree_name)

\* `if section == 'general' and 'sas_base_dir' in tree_name`
SkipBaseDir(section, tree_name) ==
    section = "general" /\ Contains(S_sas_base_dir, tree_name)

\* `if section == 'general' and tree_name in ['cas_load', 'staging_data']`
OnlyIfExists(section, tree_name) ==
    section = "general" /\ tree_name \in {S_cas_load, S_staging_data}

\* mutant: the row is put in front
AddRowFirst(tbl, link, stattime) == <<[name |-> link, date |-> stattime]>> \o tbl

\* the table entry appended for a link
AddRow(tbl, link, stattime) == Append(tbl, [name |-> link, date |-> stattime])

\* the body of the inner loop of create_index_table for one variable
VarStep(st, section, tree_name, tree_path) ==
    IF st.raised \/ SkipRoot(section, tree_name) THEN st
    ELSE
      LET src  == tree_path
          link == Upper(tree_name)
      IN  IF ~StatOK(src)
          THEN [st EXCEPT !.links   = _remove_link(@, link),
                          !.removed = @ \cup {link}]
          ELSE IF SkipBaseDir(section, tree_name) THEN st
          ELSE
            LET stattime == Strftime(targets[src].mtime)
                st1 == IF OnlyIfExists(section, tree_name)
                       THEN (IF PathExists(src) THEN make_symlink(st, src, link) ELSE st)
                       ELSE make_symlink(st, src, link)
            IN  IF st1.raised THEN st1
                ELSE IF LinkExists(st1.links, link)
                     THEN [st1 EXCEPT !.table = AddRow(@, link, stattime)]
                     ELSE st1

\* `for tree_name, tree_path in values.items()`
SectionLoop(st, section, values) ==
    LET F[i \in 0..Len(values)] ==
            IF i = 0 THEN st
            ELSE VarStep(F[i - 1], section, values[i][1], values[i][2])
    IN  F[Len(values)]

\* create_index_table on a directory holding links
create_index_table(env, links) ==
    LET st0 == [links |-> links, table |-> <<>>, made |-> <<>>,
                removed |-> {}, raised |-> FALSE]
        F[i \in 0..Len(env)] ==
            IF i = 0 THEN st0
            ELSE IF env[i].section = "default" THEN F[i - 1]
            ELSE SectionLoop(F[i - 1], env[i].section, env[i].values)
    IN  F[Len(env)]

\* os.path.exists(environ['general']['sas_root'])
SasRootExists(sas_root) == envdir # "noroot"

NoPage == [written |-> FALSE]

\* the page create_index_page composes around the table
create_index_page(env, defaults, tbl) ==
    [written |-> TRUE, title |-> defaults.name, url |-> defaults.url,
     location |-> defaults.location, version |-> defaults.name, table |-> tbl]

\* create_env on the current file system: the state it leaves
create_env(env, mirror, verbose) ==
    LET defaults ==
            [name     |-> Lookup(Section(env, "default"), S_name),
             url      |-> IF mirror THEN "https://data.mirror.sdss.org"
                                    ELSE "https://data.sdss.org",
             location |-> IF mirror THEN "SDSS-IV Science Archive Mirror (SAM)"
                                    ELSE "SDSS-IV Science Archive Server (SAS)"]
        sas_root == Lookup(Section(env, "general"), S_sas_root)
        quiet(o) == [outcome |-> o, envdir |-> envdir, links |-> envlinks,
                     table |-> <<>>, made |-> <<>>, removed |-> {}, index |-> NoPage]
    IN  IF ~SasRootExists(sas_root) THEN quiet("noroot")
        ELSE IF envdir = "readonly" THEN quiet("readonly")
        ELSE
          LET st == create_index_table(env, envlinks)
          IN  [outcome |-> IF st.raised THEN "raised" ELSE "done",
               envdir  |-> "writable",
               links   |-> st.links,
               table   |-> st.table,
               made    |-> st.made,
               removed |-> st.removed,
               index   |-> IF st.raised THEN NoPage
                           ELSE create_index_page(env, defaults, st.table)]

EmptyDir == [f \in {} |-> ""]

(***************************************************************************)
(* ShellFileWriter                                                         *)
(***************************************************************************)
S_sh        == <<".","s","h">>
S_csh       == <<".","c","s","h">>
S_module    == <<".","m","o","d","u","l","e">>
S_version   == <<".","v","e","r","s","i","o","n">>
S_tree_dir  == <<"/","t","r","e","e">>

Terms == {"bash", "tsch", "modules"}

\* str.rstrip('/')
Rstrip(s) ==
    LET keep == {n \in 0..Len(s) : \A i \in (n + 1)..Len(s) : s[i] = "/"}
    IN  SubSeq(s, 1, CHOOSE n \in keep : \A m \in keep : n <= m)

\* the header of a file: the shell template filled with name, term, base and
\* product_dir, or the module template filled with product_dir and name
write_header(term, tree_dir, name) ==
    LET product_dir == Rstrip(tree_dir)
        base        == IF term = "bash" THEN "export" ELSE "setenv"
    IN  IF term # "modules"
        THEN [kind |-> "shell header", name |-> name, term |-> term, base |-> base,
              product_dir |-> product_dir]
        ELSE [kind |-> "module header", product_dir |-> product_dir, version |-> name]

\* "#%Module1.0\nset ModulesVersion {0}".format(name)
write_version(name) ==
    <<[kind |-> "text", text |-> "#%Module1.0"],
      [kind |-> "text", text |-> "set ModulesVersion", name |-> name]>>

\* exts[term]
Ext(term) ==
    CASE term = "bash" -> S_sh
      [] term = "tsch" -> S_csh
      [] term = "modules" -> S_module

\* cmd.format(tree_name.upper(), tree_path)
Cmd(term, tree_name, tree_path) ==
    [kind  |-> IF term = "bash" THEN "export" ELSE "setenv",
     name  |-> Upper(tree_name),
     value |-> tree_path]

\* mutant: the default section is written like any other
WriteAnySection(key) == TRUE

\* `if key != 'default'`
WriteSection(key) == key # "default"

\* the lines write_file writes for one section: separator, then the variables
SectionLines(term, key, values) ==
    <<[kind |-> "separator", section |-> key]>>
        \o [j \in 1..Len(values) |-> Cmd(term, values[j][1], values[j][2])]

\* everything write_file writes into the environment file
FileLines(env, term, tree_dir) ==
    LET name == Lookup(Section(env, "default"), S_name)
        F[i \in 0..Len(env)] ==
            IF i = 0 THEN <<write_header(term, tree_dir, name)>>
            ELSE IF WriteSection(env[i].section)
                 THEN F[i - 1] \o SectionLines(term, env[i].section, env[i].values)
                 ELSE F[i - 1]
    IN  F[Len(env)]

\* open(file, 'w') and write: the directory with the file replaced
PutFile(files, file, content) ==
    [f \in DOMAIN files \cup {file} |-> IF f = file THEN content ELSE files[f]]

\* mutant: the marker is written for every module file
VersionWantedAlways(env, term) == term = "modules"

\* `if term == 'modules' and environ['default']['current']`
VersionWanted(env, term) ==
    term = "modules" /\ Lookup(Section(env, "default"), S_current)

\* write_file on directory dir = [exists, files]: the directory it leaves, the
\* files it opened for writing and whether open() raised
write_file(env, term, dir, tree_dir) ==
    LET name     == Lookup(Section(env, "default"), S_name)
        filename == name \o Ext(term)
        files1   == PutFile(dir.files, filename, FileLines(env, term, tree_dir))
    IN  IF ~dir.exists
        THEN [dir |-> dir, opened |-> {}, raised |-> TRUE]
        ELSE IF VersionWanted(env, term)
        THEN [dir    |-> [dir EXCEPT !.files = PutFile(files1, S_version, write_version(name))],
              opened |-> {filename, S_version},
              raised |-> FALSE]
        ELSE [dir    |-> [dir EXCEPT !.files = files1],
              opened |-> {filename},
              raised |-> FALSE]

(***************************************************************************)
(* ModuleInstaller                                                         *)
(***************************************************************************)
S_m == <<"/","m">>
S_n == <<"/","n">>

\* str.split(':')[0]
SplitFirst(s) ==
    IF \E i \in 1..Len(s) : s[i] = ":"
    THEN SubSeq(s, 1, (CHOOSE i \in 1..Len(s) :
                          s[i] = ":" /\ \A j \in 1..(i - 1) : s[j] # ":") - 1)
    ELSE s

\* glob's '*.module': the name ends in .module and is not a dot file
GlobModule(f) ==
    /\ Len(f) >= Len(S_module)
    /\ SubSeq(f, Len(f) - Len(S_module) + 1, Len(f)) = S_module
    /\ f[1] # "."

\* mutant: the copy keeps the file's name
KeepName(f) == f

\* os.path.splitext(os.path.basename(mfile))[0]: cut at the last dot that
\* follows a character other than a dot
SplitextRoot(f) ==
    LET dots == {i \in 2..Len(f) : f[i] = "." /\ \E j \in 1..(i - 1) : f[j] # "."}
    IN  IF dots = {} THEN f
        ELSE SubSeq(f, 1, (CHOOSE i \in dots : \A k \in dots : k <= i) - 1)

\* the modules path copy_modules settles on
ModulesPath(modules_path, modulepath, answer) ==
    IF modules_path # <<>> THEN modules_path
    ELSE IF modulepath = <<>> THEN answer
    ELSE SplitFirst(modulepath)

\* the files of tree_mod after the copies: every *.module under its base name,
\* and .version when filespath has it
CopiedFiles(src, dst) ==
    LET modfiles == {f \in DOMAIN src : GlobModule(f)}
        names    == {SplitextRoot(f) : f \in modfiles}
                        \cup (IF S_version \in DOMAIN src THEN {S_version} ELSE {})
    IN  [g \in DOMAIN dst \cup names |->
            IF g = S_version /\ S_version \in DOMAIN src THEN src[S_version]
            ELSE IF \E f \in modfiles : SplitextRoot(f) = g
                 THEN src[CHOOSE f \in modfiles : SplitextRoot(f) = g]
                 ELSE dst[g]]

\* copy_modules: the module roots it leaves and what it copied
copy_modules(dir, roots, modules_path, modulepath, answer) ==
    LET root     == ModulesPath(modules_path, modulepath, answer)
        tree_mod == IF root \in DOMAIN roots THEN roots[root] ELSE EmptyDir
        src      == IF dir.exists THEN dir.files ELSE EmptyDir
        out      == CopiedFiles(src, tree_mod)
    IN  [roots  |-> [r \in DOMAIN roots \cup {root} |-> IF r = root THEN out ELSE roots[r]],
         root   |-> root]


NoCall == [op |-> "none", term |-> "", opened |-> {}, raised |-> FALSE, root |-> <<>>]

\* the command line without any option
NoOpts == [env |-> FALSE, only |-> <<>>, mirror |-> FALSE, modulesdir |-> <<>>,
           treedir |-> S_tree_dir \o <<"/">>]

\* the write-side and driver variables while only the builder runs
WriteIdle ==
    /\ etc = [exists |-> TRUE, files |-> EmptyDir]
    /\ mods = EmptyDir
    /\ modenv = <<>>
    /\ lastcall = NoCall
MainIdle ==
    /\ opts = [NoOpts EXCEPT !.env = TRUE]
    /\ configs = <<>>
    /\ pc = 0
    /\ calls = <<>>

\* a call of create_env(environ, mirror, verbose)
CreateEnv(mirror, verbose) ==
    LET r == create_env(environ, mirror, verbose)
    IN  /\ outcome'  = r.outcome
        /\ envdir'   = r.envdir
        /\ envlinks' = r.links
        /\ table'    = r.table
        /\ made'     = r.made
        /\ removed'  = r.removed
        /\ index'    = r.index
        /\ again'    = (outcome \notin {"fresh", "idle"})
        /\ UNCHANGED <<environ, targets, writevars, mainvars>>

\* main's loop reached an earlier configuration file first: create_env ran for
\* its environment e on the same sas_root
EarlierConfig(e) ==
    LET r == create_env(e, FALSE, FALSE)
    IN  /\ outcome = "fresh"
        /\ outcome'  = "idle"
        /\ envdir'   = r.envdir
        /\ envlinks' = r.links
        /\ UNCHANGED <<environ, targets, table, made, removed, again, index,
                       writevars, mainvars>>

\* the file system changes under a data path: created, touched or removed
SetTarget(p, s) ==
    /\ targets[p] # s
    /\ targets' = [targets EXCEPT ![p] = s]
    /\ outcome' = IF outcome = "fresh" THEN "fresh" ELSE "idle"
    /\ table' = <<>>
    /\ made' = <<>>
    /\ removed' = {}
    /\ index' = NoPage
    /\ again' = FALSE
    /\ UNCHANGED <<environ, envdir, envlinks, writevars, mainvars>>

\* the environments of the configuration create_env is studied on
BuildEnvirons == Environs({S_dr1}, {TRUE})

\* the environments of an earlier configuration file
EarlierEnvirons == {MkEnviron(S_dr10, FALSE, c) : c \in EarlierChoices}

InitBuild ==
    /\ environ \in BuildEnvirons
    /\ targets \in [DataPaths -> TargetStates]
    /\ envdir \in {"noroot", "missing", "readonly", "writable"}
    /\ envlinks = EmptyDir
    /\ outcome = "fresh"
    /\ table = <<>>
    /\ made = <<>>
    /\ removed = {}
    /\ index = NoPage
    /\ again = FALSE
    /\ WriteIdle
    /\ MainIdle

NextBuild ==
    \/ \E mirror \in BOOLEAN : CreateEnv(mirror, FALSE)
    \/ \E e \in EarlierEnvirons : EarlierConfig(e)
    \/ \E p \in DataPaths, s \in TargetStates : SetTarget(p, s)

SpecBuild == InitBuild /\ [][NextBuild]_vars

(***************************************************************************)
(* The writer and the installer as a state machine                         *)
(***************************************************************************)
\* a call of write_file(environ, term, out_dir, tree_dir)
WriteFile(term) ==
    LET r == write_file(environ, term, etc, opts.treedir)
    IN  /\ etc' = r.dir
        /\ lastcall' = [NoCall EXCEPT !.op = "write_file", !.term = term,
                                      !.opened = r.opened, !.raised = r.raised]
        /\ UNCHANGED <<mods, modenv, buildvars, mainvars>>

\* a call of copy_modules(filespath, modules_path); answer is what the prompt
\* returns when it is reached
CopyModules(answer) ==
    LET r == copy_modules(etc, mods, opts.modulesdir, modenv, answer)
    IN  /\ mods' = r.roots
        /\ lastcall' = [NoCall EXCEPT !.op = "copy_modules", !.root = r.root]
        /\ UNCHANGED <<etc, modenv, buildvars, mainvars>>

\* main's loop reached an earlier configuration file first: its three files
\* were written to the same etc directory
EarlierConfigWritten(e) ==
    LET r1 == write_file(e, "modules", etc, opts.treedir)
        r2 == write_file(e, "bash", r1.dir, opts.treedir)
        r3 == write_file(e, "tsch", r2.dir, opts.treedir)
    IN  /\ lastcall = NoCall
        /\ etc.exists
        /\ etc.files = EmptyDir
        /\ etc' = r3.dir
        /\ UNCHANGED <<mods, modenv, lastcall, buildvars, mainvars>>

BuildIdle ==
    /\ targets = [p \in DataPaths |-> NoTarget]
    /\ envdir = "noroot"
    /\ envlinks = EmptyDir
    /\ outcome = "fresh"
    /\ table = <<>>
    /\ made = <<>>
    /\ removed = {}
    /\ index = NoPage
    /\ again = FALSE

\* the values of MODULEPATH: unset, one path, two paths
ModulePaths == {<<>>, S_n, S_n \o <<":">> \o S_m}

InitWrite ==
    /\ environ \in Environs({S_dr1}, BOOLEAN)
    /\ etc \in {[exists |-> x, files |-> EmptyDir] : x \in BOOLEAN}
    /\ mods = EmptyDir
    /\ modenv \in ModulePaths
    /\ lastcall = NoCall
    /\ BuildIdle
    /\ opts \in {[NoOpts EXCEPT !.modulesdir = m] : m \in {<<>>, S_m}}
    /\ configs = <<>>
    /\ pc = 0
    /\ calls = <<>>

NextWrite ==
    \/ \E term \in Terms : WriteFile(term)
    \/ CopyModules(S_m)
    \/ \E cur \in BOOLEAN : EarlierConfigWritten(MkEnviron(S_dr10, cur, [i \in 1..Len(VarNames) |-> Absent]))

SpecWrite == InitWrite /\ [][NextWrite]_vars

(***************************************************************************)
(* Driver: main as a state machine, one step per turn of its loop          *)
(***************************************************************************)
S_data == <<"d","a","t","a">>
S_cfg  == <<".","c","f","g">>
S_dr8  == <<"d","r","8">>

\* os.path.join(a, b) for a relative b
Join(a, b) == IF a # <<>> /\ a[Len(a)] = "/" THEN a \o b ELSE a \o <<"/">> \o b

\* the names of the configuration files data/ may hold
ConfigNames == {S_dr1, S_dr10, S_dr8}

\* the path glob returns for data/<name>.cfg
CfgFile(treedir, name) == Join(Join(treedir, S_data), name \o S_cfg)

\* what glob may return: the files of any data directory, in any order
Globs ==
    {s \in UNION {[1..n -> ConfigNames] : n \in 0..Cardinality(ConfigNames)} :
        \A i, j \in DOMAIN s : i # j => s[i] # s[j]}

\* the one variable every loaded configuration defines: general/boss
LoadedChoice == [i \in 1..Len(VarNames) |->
                    IF VarNames[i] = S_boss THEN <<"general", ConfiguredPath(i)>> ELSE Absent]

\* get_tree(config=cfgfile).environ: the environment loaded from the file
get_tree(cfgfile) ==
    LET name == CHOOSE n \in ConfigNames : CfgFile(opts.treedir, n) = cfgfile
    IN  MkEnviron(name, name = S_dr1, LoadedChoice)

\* `if opts.only and opts.only not in cfgfile: continue`
OnlySkips(cfgfile) == opts.only # <<>> /\ ~Contains(opts.only, cfgfile)

InLoop == pc \in 1..Len(configs)

\* main up to its loop: the options are parsed, glob lists the config files
MainStart(found) ==
    /\ pc = 0
    /\ configs' = [i \in DOMAIN found |-> CfgFile(opts.treedir, found[i])]
    /\ pc' = 1
    /\ UNCHANGED <<opts, calls, buildvars, writevars>>

\* a turn of the loop that the --only filter skips
MainSkip ==
    /\ InLoop
    /\ opts.env
    /\ OnlySkips(configs[pc])
    /\ environ' = get_tree(configs[pc])
    /\ pc' = pc + 1
    /\ UNCHANGED <<opts, configs, calls, targets, envdir, envlinks, outcome, table,
                   made, removed, again, index, writevars>>

\* a turn of the loop that calls create_env; an exception ends main
MainCreateEnv ==
    /\ InLoop
    /\ opts.env
    /\ ~OnlySkips(configs[pc])
    /\ LET tree == get_tree(configs[pc])
           r    == create_env(tree, opts.mirror, FALSE)
       IN  /\ environ'  = tree
           /\ outcome'  = r.outcome
           /\ envdir'   = r.envdir
           /\ envlinks' = r.links
           /\ table'    = r.table
           /\ made'     = r.made
           /\ removed'  = r.removed
           /\ index'    = r.index
           /\ again'    = FALSE
           /\ calls'    = Append(calls, [op |-> "create_env", cfgfile |-> configs[pc]])
           /\ pc'       = IF r.outcome = "raised" THEN Len(configs) + 1 ELSE pc + 1
    /\ UNCHANGED <<opts, configs, targets, writevars>>

\* a turn of the loop that writes the three files and installs the modules; an
\* exception of the first open() ends main
MainWrite(answer) ==
    /\ InLoop
    /\ ~opts.env
    /\ LET tree == get_tree(configs[pc])
           r1   == write_file(tree, "modules", etc, opts.treedir)
           r2   == write_file(tree, "bash", r1.dir, opts.treedir)
           r3   == write_file(tree, "tsch", r2.dir, opts.treedir)
           c    == copy_modules(r3.dir, mods, opts.modulesdir, modenv, answer)
           rec(op) == [op |-> op, cfgfile |-> configs[pc]]
       IN  /\ environ' = tree
           /\ IF r1.raised
              THEN /\ etc' = etc
                   /\ mods' = mods
                   /\ lastcall' = [NoCall EXCEPT !.op = "write_file", !.term = "modules",
                                                 !.raised = TRUE]
                   /\ calls' = Append(calls, rec("write_file"))
                   /\ pc' = Len(configs) + 1
              ELSE /\ etc' = r3.dir
                   /\ mods' = c.roots
                   /\ lastcall' = [NoCall EXCEPT !.op = "copy_modules", !.root = c.root]
                   /\ calls' = calls \o <<rec("write_file"), rec("write_file"),
                                          rec("write_file"), rec("copy_modules")>>
                   /\ pc' = pc + 1
    /\ UNCHANGED <<opts, configs, modenv, targets, envdir, envlinks, outcome, table,
                   made, removed, again, index>>

\* the values of --only: not given, a config name, a config file name
OnlyValues == {<<>>, S_dr1, S_dr1 \o S_cfg, S_dr10}

InitMain ==
    /\ opts \in {[NoOpts EXCEPT !.env = e, !.only = o, !.mirror = m, !.modulesdir = S_m] :
                    e \in BOOLEAN, o \in OnlyValues, m \in BOOLEAN}
    /\ configs = <<>>
    /\ pc = 0
    /\ calls = <<>>
    /\ environ = MkEnviron(S_dr1, TRUE, LoadedChoice)
    /\ targets \in {[p \in DataPaths |-> s] : s \in {NoTarget, [exists |-> TRUE, mtime |-> 60]}}
    /\ envdir \in {"noroot", "missing"}
    /\ envlinks = EmptyDir
    /\ outcome = "fresh"
    /\ table = <<>>
    /\ made = <<>>
    /\ removed = {}
    /\ index = NoPage
    /\ again = FALSE
    /\ etc \in {[exists |-> x, files |-> EmptyDir] : x \in BOOLEAN}
    /\ mods = EmptyDir
    /\ modenv = S_n
    /\ lastcall = NoCall

NextMain ==
    \/ \E found \in Globs : MainStart(found)
    \/ MainSkip
    \/ MainCreateEnv
    \/ MainWrite(S_m)

SpecMain == InitMain /\ [][NextMain]_vars

(***************************************************************************)
(* Properties of the builder                                               *)
(***************************************************************************)
\* the variables of the non-default sections of env
Entries(env) ==
    UNION {{[section |-> env[i].section, name |-> env[i].values[j][1],
             path |-> env[i].values[j][2]] : j \in 1..Len(env[i].values)} :
           i \in {k \in 1..Len(env) : env[k].section # "default"}}

\* the links os.symlink was called for in the last run
MadeLinks == {made[i][2] : i \in 1..Len(made)}

\* the names of the rows of a table
RowNames(tbl) == [i \in 1..Len(tbl) |-> tbl[i].name]

\* the run made a symlink attempt for variable v: link created when the target is
\* reachable, stale link removed when it is not
Attempted(v) ==
    LET link == Upper(v.name)
    IN  IF targets[v.path].exists
        THEN /\ link \in MadeLinks
             /\ link \in DOMAIN envlinks
             /\ envlinks[link] = v.path
        ELSE /\ link \in removed
             /\ link \notin DOMAIN envlinks

\* the run left variable v alone: no link created, none removed, no row
Skipped(v) ==
    LET link == Upper(v.name)
    IN  /\ link \notin MadeLinks
        /\ link \notin removed
        /\ \A i \in 1..Len(table) : table[i].name # link

\* C1 as stated: a variable whose name contains `_root` is skipped if and only if
\* its section is general; in any other section it gets a symlink attempt.
C1_GeneralOnly ==
    outcome = "done" =>
        \A v \in Entries(environ) :
            Contains(S_root, v.name) =>
                IF v.section = "general" THEN Skipped(v) ELSE Attempted(v)

\* C1 amended: a variable whose name contains `_root` is skipped in every
\* non-default section, general or not: the run creates no link, removes none
\* and adds no row for it, whatever the state of its target, and no symlink of
\* its name exists.
C1_RootSkippedEverywhere ==
    outcome = "done" =>
        \A v \in Entries(environ) :
            Contains(S_root, v.name) =>
                Skipped(v) /\ Upper(v.name) \notin DOMAIN envlinks

C1_Witness ==
    /\ outcome = "done"
    /\ \E v \in Entries(environ) :
          /\ Contains(S_root, v.name)
          /\ v.section # "general"
          /\ targets[v.path].exists
    /\ made # <<>>

\* general variables that are neither `_root` anchors nor cas_load / staging_data
PlainGeneral(v) ==
    /\ v.section = "general"
    /\ ~Contains(S_root, v.name)
    /\ v.name \notin {S_cas_load, S_staging_data}

\* C2 as stated: every general variable without `_root` other than cas_load and
\* staging_data ends as a symlink at its path when the target is reachable, and
\* as no symlink when it is not.
C2_EveryPlainGeneral ==
    outcome = "done" =>
        \A v \in Entries(environ) :
            PlainGeneral(v) =>
                IF targets[v.path].exists
                THEN Upper(v.name) \in DOMAIN envlinks /\ envlinks[Upper(v.name)] = v.path
                ELSE Upper(v.name) \notin DOMAIN envlinks

\* C2 amended: the same for every such variable whose name does not contain
\* `sas_base_dir`.
C2_PlainGeneralButBaseDir ==
    outcome = "done" =>
        \A v \in Entries(environ) :
            (PlainGeneral(v) /\ ~Contains(S_sas_base_dir, v.name)) =>
                IF targets[v.path].exists
                THEN Upper(v.name) \in DOMAIN envlinks /\ envlinks[Upper(v.name)] = v.path
                ELSE Upper(v.name) \notin DOMAIN envlinks

C2_Witness ==
    /\ outcome = "done"
    /\ \E v \in Entries(environ) :
          /\ PlainGeneral(v)
          /\ ~Contains(S_sas_base_dir, v.name)
          /\ ~targets[v.path].exists
          /\ Upper(v.name) \in removed
    /\ \E v \in Entries(environ) :
          /\ v.section = "general"
          /\ Contains(S_sas_base_dir, v.name)

\* C9: for general/cas_load and general/staging_data the symlink is created if
\* and only if the target exists at call time, and when it does not exist no
\* symlink of that name is present after the run.
C9_OptionalIffTarget ==
    outcome = "done" =>
        \A v \in Entries(environ) :
            (v.section = "general" /\ v.name \in {S_cas_load, S_staging_data}) =>
                /\ (<<v.path, Upper(v.name)>> \in {made[i] : i \in 1..Len(made)})
                      <=> targets[v.path].exists
                /\ targets[v.path].exists =>
                      (Upper(v.name) \in DOMAIN envlinks /\ envlinks[Upper(v.name)] = v.path)
                /\ ~targets[v.path].exists => Upper(v.name) \notin DOMAIN envlinks

C9_Witness ==
    /\ outcome = "done"
    /\ \E v \in Entries(environ) :
          /\ v.section = "general" /\ v.name = S_cas_load
          /\ targets[v.path].exists
          /\ Upper(v.name) \in MadeLinks
    /\ \E v \in Entries(environ) :
          /\ v.section = "general" /\ v.name = S_staging_data
          /\ ~targets[v.path].exists

\* the same build on an empty sas_root/env: same environment, same targets
FreshRun == create_index_table(environ, EmptyDir)

\* C5 as stated: the symlinks in sas_root/env and the table rows after a build
\* are those the same build leaves on an empty directory, whatever prior runs
\* left there.
C5_IndependentOfPriorRuns ==
    outcome = "done" =>
        /\ envlinks = FreshRun.links
        /\ table = FreshRun.table

\* the names build acts on: variables of non-default sections without `_root`,
\* except a general variable containing `sas_base_dir` whose target is reachable
ActedOn ==
    {Upper(v.name) : v \in {w \in Entries(environ) :
        /\ ~Contains(S_root, w.name)
        /\ ~(/\ w.section = "general"
             /\ Contains(S_sas_base_dir, w.name)
             /\ targets[w.path].exists)}}

\* C5 amended: the table rows, and the symlink under every name build acts on,
\* are those the same build leaves on an empty directory; symlinks under other
\* names are not part of the statement (build leaves them as it found them).
C5_ActedOnIndependent ==
    outcome = "done" =>
        /\ table = FreshRun.table
        /\ \A link \in ActedOn :
              /\ link \in DOMAIN envlinks <=> link \in DOMAIN FreshRun.links
              /\ link \in DOMAIN envlinks => envlinks[link] = FreshRun.links[link]

C5_Witness ==
    /\ outcome = "done"
    /\ made # <<>>
    /\ \E link \in DOMAIN envlinks : link \notin ActedOn
    /\ \E link \in ActedOn : link \in removed

\* the variables of the non-default sections of env in traversal order
Traversal(env) ==
    LET F[i \in 0..Len(env)] ==
            IF i = 0 THEN <<>>
            ELSE IF env[i].section = "default" THEN F[i - 1]
            ELSE F[i - 1] \o [j \in 1..Len(env[i].values) |-> env[i].values[j][1]]
    IN  F[Len(env)]

\* the position of a link name in the traversal
Position(link) ==
    CHOOSE i \in 1..Len(Traversal(environ)) : Upper(Traversal(environ)[i]) = link

\* C6: the table has exactly one row per symlink the run created: a variable has
\* a row iff its symlink was created, no name has two rows, the rows follow the
\* traversal order of the variables, and each row carries its target's
\* modification time to the minute.
C6_OneRowPerCreatedLink ==
    outcome = "done" =>
        /\ \A v \in Entries(environ) :
              (\E i \in 1..Len(table) : table[i].name = Upper(v.name))
                  <=> Upper(v.name) \in MadeLinks
        /\ Len(table) = Len(made)
        /\ \A i \in 1..Len(table) :
              /\ table[i].name = made[i][2]
              /\ table[i].name \in DOMAIN envlinks
              /\ 60 * table[i].date <= targets[envlinks[table[i].name]].mtime
              /\ targets[envlinks[table[i].name]].mtime < 60 * (table[i].date + 1)
        /\ \A i, j \in 1..Len(table) :
              i < j => /\ table[i].name # table[j].name
                       /\ Position(table[i].name) < Position(table[j].name)

C6_Witness ==
    /\ outcome = "done"
    /\ Len(table) >= 2
    /\ table[1].date # table[2].date
    /\ Len(table) < Cardinality(Entries(environ))

\* C10: a build that directly follows a build on an unchanged environment and
\* unchanged targets leaves the same symlinks (names and targets) and produces
\* the same rows, the timestamp column aside.
C10_Idempotent ==
    [][(outcome = "done" /\ outcome' \notin {"fresh", "idle"})
          => /\ outcome' = "done"
             /\ envlinks' = envlinks
             /\ RowNames(table') = RowNames(table)]_vars

C10_Witness ==
    /\ outcome = "done"
    /\ again
    /\ made # <<>>
    /\ removed # {}

(***************************************************************************)
(* Properties of the writer and the installer                              *)
(***************************************************************************)
\* environ['default']['name'] and environ['default']['current']
DefaultName    == Lookup(Section(environ, "default"), S_name)
DefaultCurrent == Lookup(Section(environ, "default"), S_current)

\* the files of out_dir
EtcFiles == IF etc.exists THEN etc.files ELSE EmptyDir

\* C7: write_file writes .version if and only if the dialect is modules and
\* default.current is true; otherwise .version is left as it was; whenever it is
\* written its content is `#%Module1.0`, newline, `set ModulesVersion <name>`.
C7_VersionIffModulesAndCurrent ==
    [][(lastcall'.op = "write_file" /\ ~lastcall'.raised) =>
          IF lastcall'.term = "modules" /\ DefaultCurrent
          THEN /\ S_version \in lastcall'.opened
               /\ S_version \in DOMAIN etc'.files
               /\ Len(etc'.files[S_version]) = 2
               /\ etc'.files[S_version][1] = [kind |-> "text", text |-> "#%Module1.0"]
               /\ etc'.files[S_version][2] =
                      [kind |-> "text", text |-> "set ModulesVersion", name |-> DefaultName]
          ELSE /\ S_version \notin lastcall'.opened
               /\ S_version \in DOMAIN etc'.files <=> S_version \in DOMAIN etc.files
               /\ S_version \in DOMAIN etc.files =>
                      etc'.files[S_version] = etc.files[S_version]]_vars

C7_Witness ==
    /\ lastcall.op = "write_file"
    /\ lastcall.term = "modules"
    /\ S_version \notin lastcall.opened
    /\ S_version \in DOMAIN etc.files
    /\ etc.files[S_version][2].name # DefaultName

\* the non-default sections of the environment, in mapping order
NonDefault == SelectSeq(environ, LAMBDA sec : sec.section # "default")

\* the line of the file at which the separator of the k-th non-default section stands
SeparatorLine(k) ==
    LET F[m \in 1..Len(NonDefault)] ==
            IF m = 1 THEN 2 ELSE F[m - 1] + 1 + Len(NonDefault[m - 1].values)
    IN  F[k]

\* C8: the bash file is the header, then for each non-default section in mapping
\* order a separator and one `export <NAME_UPPER>=<path>` per variable in stored
\* order; it assigns exactly the uppercased names of the non-default sections
\* and no key of the default section.
C8_BashFileBody ==
    (DefaultName \o S_sh) \in DOMAIN EtcFiles =>
        LET f == EtcFiles[DefaultName \o S_sh]
            n == Len(NonDefault)
        IN  /\ Len(f) = 1 + n + Cardinality(Entries(environ))
            /\ f[1].kind = "shell header"
            /\ \A k \in 1..n :
                  /\ f[SeparatorLine(k)] = [kind |-> "separator", section |-> NonDefault[k].section]
                  /\ \A j \in 1..Len(NonDefault[k].values) :
                        f[SeparatorLine(k) + j] =
                            [kind  |-> "export",
                             name  |-> Upper(NonDefault[k].values[j][1]),
                             value |-> NonDefault[k].values[j][2]]
            /\ {f[i].name : i \in {l \in 2..Len(f) : f[l].kind = "export"}}
                  = {Upper(v.name) : v \in Entries(environ)}
            /\ \A i \in 2..Len(f) :
                  f[i].kind = "export" => f[i].name \notin {Upper(S_name), Upper(S_current)}

C8_Witness ==
    /\ lastcall.op = "write_file"
    /\ lastcall.term = "bash"
    /\ (DefaultName \o S_sh) \in DOMAIN EtcFiles
    /\ Len(NonDefault) = 2
    /\ Len(NonDefault[1].values) = 2

\* a file name of the form <name>.module
IsModuleFile(f) ==
    /\ Len(f) > Len(S_module)
    /\ SubSeq(f, Len(f) - Len(S_module) + 1, Len(f)) = S_module

\* <name> of <name>.module
WithoutExtension(f) == SubSeq(f, 1, Len(f) - Len(S_module))

\* the .version marker of modules_path/tree is a copy of the one in sourceDir
\* exactly when sourceDir has one
VersionCopied(tree) ==
    /\ S_version \in DOMAIN tree <=> S_version \in DOMAIN EtcFiles
    /\ S_version \in DOMAIN EtcFiles => tree[S_version] = EtcFiles[S_version]

\* C4 as stated: after copy_modules every <name>.module of sourceDir has a copy
\* modules_path/tree/<name>.module, .version is copied exactly when present, and
\* modules_path/tree exists.
C4_CopiesKeepName ==
    lastcall.op = "copy_modules" =>
        /\ lastcall.root \in DOMAIN mods
        /\ \A f \in DOMAIN EtcFiles :
              IsModuleFile(f) =>
                  /\ f \in DOMAIN mods[lastcall.root]
                  /\ mods[lastcall.root][f] = EtcFiles[f]
        /\ VersionCopied(mods[lastcall.root])

\* C4 amended: the copy of <name>.module is the file modules_path/tree/<name>,
\* the extension dropped.
C4_CopiesDropExtension ==
    lastcall.op = "copy_modules" =>
        /\ lastcall.root \in DOMAIN mods
        /\ \A f \in DOMAIN EtcFiles :
              IsModuleFile(f) =>
                  /\ WithoutExtension(f) \in DOMAIN mods[lastcall.root]
                  /\ mods[lastcall.root][WithoutExtension(f)] = EtcFiles[f]
        /\ VersionCopied(mods[lastcall.root])

C4_Witness ==
    /\ lastcall.op = "copy_modules"
    /\ Cardinality({f \in DOMAIN EtcFiles : IsModuleFile(f)}) = 2
    /\ S_version \in DOMAIN EtcFiles
    /\ lastcall.root = S_n

(***************************************************************************)
(* C3: the --only filter of the driver                                     *)
(***************************************************************************)
\* os.path.basename(path)
Basename(path) ==
    LET slashes == {i \in 1..Len(path) : path[i] = "/"}
    IN  IF slashes = {} THEN path
        ELSE SubSeq(path, (CHOOSE i \in slashes : \A k \in slashes : k <= i) + 1, Len(path))

\* the configuration file the filter names: <only> or <only>.cfg in data/
Named(only, cfgfile) ==
    \/ Basename(cfgfile) = only
    \/ Basename(cfgfile) = only \o S_cfg

\* C3 as stated: in env-mode with the --only filter given, create_env is called
\* for no discovered configuration file other than the one the filter names.
C3_OnlyNamedConfig ==
    (opts.env /\ opts.only # <<>>) =>
        \A i \in 1..Len(calls) :
            calls[i].op = "create_env" => Named(opts.only, calls[i].cfgfile)

====
